---- MODULE Spec2Model ----
(***************************************************************************)
(* State-machine model of backend/main.py: run_time_series_analysis (the   *)
(* date-parsing cascade, resampling, stationarity test, decomposition and  *)
(* the two-tier forecaster), run_causal_checks, and the dataset cache that  *)
(* upload and the other endpoints share (_load_df, _reset_cache).          *)
(*                                                                         *)
(* Time is counted in whole days from a reference Sunday (day 0).          *)
(* A raw date value is abstracted to the set of parsers that accept it     *)
(* (its kind) and the day it denotes.  Calls into pandas / statsmodels /   *)
(* pmdarima whose outcome the source does not decide (a fit that raises,   *)
(* a plot that cannot be saved) are drawn from the variable lib.           *)
(***************************************************************************)
EXTENDS Integers, Sequences, FiniteSets, TLC

\* ------------------------------------------------------------------ bounds
MaxRows == 3
MaxT == 3
MaxHorizon == 2
\* the request threads and the uploads of one run
NumRequests == 2
MaxUploads == 2

\* -------------------------------------------------------- program constants
\* 0.8 of the column, main.py:182 / 213 / 226, as tenths
ThresholdTenths == 8
\* median digit length from which an integer is read as milliseconds
MsDigits == 13

common_formats ==
    << "%Y-%m-%d", "%d-%m-%Y", "%m/%d/%Y", "%d/%m/%Y", "%Y/%m/%d",
       "%Y-%m-%d %H:%M:%S", "%d-%m-%Y %H:%M:%S", "%m/%d/%Y %H:%M:%S" >>

\* ------------------------------------------------------------- cell values
\* kinds of raw date value, by example:
\*   iso    "2023-01-05"      dmy  "25-12-2023"     mdy  "12/25/2023"
\*   junk   "hello"           int10 1700000000 (an integer)
\*   int13  1700000000000     num10 "1700000000" (a string of digits)
\*   num13  "1700000000000"
Kinds == {"iso", "dmy", "mdy", "junk", "int10", "int13", "num10", "num13"}

Raw(k, t) == [tag |-> "raw", k |-> k, t |-> t]
Stamp(t) == [tag |-> "ts", k |-> "-", t |-> t]
NaT == [tag |-> "nat", k |-> "-", t |-> 0]

IsNa(c) == c.tag = "nat"

Max(a, b) == IF a >= b THEN a ELSE b

\* number of decimal digits of the integer part; 0 when the value is not numeric
NumericLen(c) ==
    IF c.tag # "raw" THEN 0
    ELSE IF c.k \in {"int10", "num10"} THEN 10
    ELSE IF c.k \in {"int13", "num13"} THEN 13
    ELSE 0

\* pd.to_datetime(col, errors="coerce", infer_datetime_format=True): date
\* strings in the inferred layout parse; integers are read as nanoseconds
\* since the epoch, which for 10- and 13-digit integers is within day 0.
ToDatetimeInfer(c) ==
    IF c.tag # "raw" THEN c
    ELSE IF c.k = "iso" THEN Stamp(c.t)
    ELSE IF c.k \in {"int10", "int13"} THEN Stamp(0)
    ELSE NaT

\* index in common_formats of the format the value is written in, 0 if none
FormatOf(c) ==
    IF c.tag # "raw" THEN 0
    ELSE IF c.k = "iso" THEN 1
    ELSE IF c.k = "dmy" THEN 2
    ELSE IF c.k = "mdy" THEN 3
    ELSE 0

\* pd.to_datetime(col, format=common_formats[f], errors="coerce")
ToDatetimeFormat(c, f) == IF FormatOf(c) = f THEN Stamp(c.t) ELSE NaT

\* pd.to_numeric(col, errors="coerce"): is the value numeric
IsNumeric(c) == NumericLen(c) > 0

\* pd.to_datetime(numeric_like, unit=u, errors="coerce"): a 13-digit count of
\* seconds is out of the timestamp range (NaT), a 10-digit count of
\* milliseconds denotes a thousandth of the time it denotes as seconds.
ToDatetimeUnit(c, u) ==
    IF ~IsNumeric(c) THEN NaT
    ELSE IF u = "s" THEN (IF NumericLen(c) = 10 THEN Stamp(c.t) ELSE NaT)
    ELSE (IF NumericLen(c) = 13 THEN Stamp(c.t) ELSE Stamp(c.t \div 1000))

\* dateutil.parser.parse(str(val)): date strings and the text of a timestamp
\* parse; "NaT", free text and long digit strings raise.
DateutilParse(c) ==
    IF c.tag = "ts" THEN c
    ELSE IF c.tag = "raw" /\ c.k \in {"iso", "dmy", "mdy"} THEN Stamp(c.t)
    ELSE NaT

\* n_parsed >= max(1, int(0.8 * total))
Threshold(total) == Max(1, (ThresholdTenths * total) \div 10)
ReachesThreshold(n, total) == n >= Threshold(total)

NotNaCount(s) == Cardinality({i \in 1..Len(s) : ~IsNa(s[i])})

\* ----------------------------------------------------------------- helpers
RECURSIVE InsertInt(_, _)
\* insert x into the ascending sequence of integers s
InsertInt(s, x) ==
    IF s = << >> THEN << x >>
    ELSE IF x < Head(s) THEN << x >> \o s
    ELSE << Head(s) >> \o InsertInt(Tail(s), x)

RECURSIVE SortInts(_)
SortInts(s) ==
    IF s = << >> THEN << >>
    ELSE InsertInt(SortInts(SubSeq(s, 1, Len(s) - 1)), s[Len(s)])

RECURSIVE InsertRow(_, _)
\* insert row x into the frame s sorted by timestamp, after the rows with the
\* same timestamp
InsertRow(s, x) ==
    IF s = << >> THEN << x >>
    ELSE IF x.date.t < Head(s).date.t THEN << x >> \o s
    ELSE << Head(s) >> \o InsertRow(Tail(s), x)

RECURSIVE SortValues(_)
\* frame.sort_values(date_col) on a column of timestamps
SortValues(s) ==
    IF s = << >> THEN << >>
    ELSE InsertRow(SortValues(SubSeq(s, 1, Len(s) - 1)), s[Len(s)])

\* int(sample.str.len().median()): the middle length, or the mean of the two
\* middle lengths, truncated
MedianLen(cells) ==
    LET lens == SortInts([i \in 1..Len(cells) |-> NumericLen(cells[i])])
        n == Len(lens)
    IN  IF n % 2 = 1 THEN lens[(n + 1) \div 2]
        ELSE (lens[n \div 2] + lens[n \div 2 + 1]) \div 2

\* the date column of a frame, in row order
DateCol(frame) == [i \in 1..Len(frame) |-> frame[i].date]

\* frame[date_col] = series, where series has the frame's own index: row by row
AssignDates(frame, series) ==
    [i \in 1..Len(frame) |-> [frame[i] EXCEPT !.date = series[i]]]

\* frame[date_col] = pd.Series(list): the list carries a fresh index 0..n-1 and
\* pandas aligns it with the frame on index labels; a label the list lacks
\* gets a missing value
AssignDatesByLabel(frame, series) ==
    [i \in 1..Len(frame) |->
        [frame[i] EXCEPT !.date =
            IF frame[i].idx + 1 <= Len(series) THEN series[frame[i].idx + 1] ELSE NaT]]

\* ------------------------------------------------------------- frequencies
\* a frequency is a step in days; an anchored frequency (weekly) has its grid
\* at phase + k * step, a tick frequency ("D", "2D") starts where it is applied
NoFreq == [step |-> 0, anchored |-> FALSE, phase |-> 0]
FreqD == [step |-> 1, anchored |-> FALSE, phase |-> 0]
Freq2D == [step |-> 2, anchored |-> FALSE, phase |-> 0]
FreqW == [step |-> 7, anchored |-> TRUE, phase |-> 0]

\* the first grid point at or after t
RollForward(t, f) == IF f.anchored THEN t + ((f.phase - t) % f.step) ELSE t

\* pd.infer_freq(index) on a sorted index; None (here NoFreq) when the spacing
\* is not uniform or a timestamp repeats; fewer than 3 timestamps raise
InferFreqRaises(index) == Len(index) < 3
InferFreq(index) ==
    LET d == index[2] - index[1]
    IN  IF \E i \in 1..(Len(index) - 1) : index[i + 1] - index[i] # d THEN NoFreq
        ELSE IF d = 0 THEN NoFreq
        ELSE IF d % 7 = 0 THEN [step |-> d, anchored |-> TRUE, phase |-> index[1] % d]
        ELSE [step |-> d, anchored |-> FALSE, phase |-> 0]

\* the label of the resampling bucket of t, the column starting at first
BucketLabel(t, first, f) ==
    IF f.anchored THEN RollForward(t, f)
    ELSE first + ((t - first) \div f.step) * f.step

\* the timestamps of a frame, as a set
Times(frame) == {frame[i].date.t : i \in 1..Len(frame)}

\* the buckets that hold a row only, as grouping without a regular grid gives
ResampleNoFill(frame, f) ==
    LET first == CHOOSE t \in Times(frame) : \A u \in Times(frame) : t <= u
        labels == {BucketLabel(t, first, f) : t \in Times(frame)}
        label(k) == CHOOSE l \in labels : Cardinality({m \in labels : m < l}) = k - 1
    IN  [k \in 1..Cardinality(labels) |->
            [t |-> label(k),
             rows |-> {frame[i].idx : i \in
                        {j \in 1..Len(frame) :
                            BucketLabel(frame[j].date.t, first, f) = label(k)}}]]

\* ts[value_col].resample(freq).mean().interpolate(): one entry per bucket
\* from the bucket of the earliest timestamp to that of the latest, holding
\* the rows averaged in it (none: the entry is interpolated)
Resample(frame, f) ==
    LET first == CHOOSE t \in Times(frame) : \A u \in Times(frame) : t <= u
        last == CHOOSE t \in Times(frame) : \A u \in Times(frame) : t >= u
        lo == BucketLabel(first, first, f)
        hi == BucketLabel(last, first, f)
        n == (hi - lo) \div f.step + 1
    IN  [k \in 1..n |->
            [t |-> lo + (k - 1) * f.step,
             rows |-> {frame[i].idx : i \in
                        {j \in 1..Len(frame) :
                            BucketLabel(frame[j].date.t, first, f) = lo + (k - 1) * f.step}}]]

\* pd.date_range(start=start, periods=periods, freq=f)
DateRange(start, periods, f) ==
    [i \in 1..periods |-> RollForward(start, f) + (i - 1) * f.step]

\* the range taken from its start, the last historical timestamp included
ForecastIndexFromLast(last, n, f) == DateRange(last, n, f)

\* pd.date_range(start=ts_resampled.index[-1], periods=n + 1, freq=freq)[1:]
ForecastIndex(last, n, f) == Tail(DateRange(last, n + 1, f))

\* ------------------------------------------------------------------- state
VARIABLES
    df,                      \* the caller's dataset: rows with index 0..n-1
    req,                     \* the request: entry point and its arguments
    lib,                     \* outcome of the library calls the source leaves open
    pc,                      \* position in the function being run
    ts,                      \* run_time_series_analysis: the working frame
    parse_info,              \* {"method", "details"}
    freq,                    \* the frequency in use
    ts_resampled,
    adf_res,
    decomposition_plot_url,
    forecast,
    forecast_plot_url,
    pair,                    \* run_causal_checks: the cleaned pair
    res,                     \* run_causal_checks: the result
    exc,                     \* the exception that left the function, "" if none
    log,                     \* the steps run so far, in order
    commits,                 \* the parse stages that assigned the date column
    primary_raised,          \* where the primary forecast attempt raised
    fallback_raised,         \* where the fallback forecast attempt raised
    file,                    \* the workbook at DATA_PATH
    _df,                     \* the cached dataset, None until loaded
    _schema_info,            \* the cached schema, None until loaded
    cpc,                     \* position of each request and of upload
    loaded,                  \* _load_df: the frame read_excel gave each caller
    inferred,                \* _load_df: the schema _infer_schema gave each caller
    returned,                \* what _load_df returned to each caller
    uploads                  \* the uploads completed

vars == << df, req, lib, pc, ts, parse_info, freq, ts_resampled, adf_res,
           decomposition_plot_url, forecast, forecast_plot_url, pair, res, exc,
           log, commits, primary_raised, fallback_raised,
           file, _df, _schema_info, cpc, loaded, inferred, returned, uploads >>

cacheVars == << file, _df, _schema_info, cpc, loaded, inferred, returned, uploads >>

analysisVars == << df, req, lib, pc, ts, pair, res, exc, log >>

tsVars == << parse_info, freq, ts_resampled, adf_res, decomposition_plot_url,
             forecast, forecast_plot_url, commits, primary_raised, fallback_raised >>

\* ----------------------------------------------------------------- inputs
Row(i, d, v, o) == [idx |-> i, date |-> d, value |-> v, other |-> o]

LibOk == [infer |-> "ok", adf |-> "ok", decomp |-> "ok", primary |-> "ok",
          fallback |-> "ok", granger |-> "ok"]
Libs == [infer : {"ok", "raise"}, adf : {"ok", "raise"}, decomp : {"ok", "raise"},
         primary : {"ok", "import", "fit", "predict", "plot"},
         fallback : {"ok", "fit", "plot"}, granger : {"ok"}]

TsRequest(f, h) ==
    [fn |-> "ts", cols |-> TRUE, freq |-> f, horizon |-> h, horizon_none |-> FALSE]

\* datasets whose date values are of every kind, row i denoting day i - 1,
\* with at most one row, any of them, lacking the numeric value
KindFrames ==
    UNION { { [i \in 1..n |->
                 Row(i - 1, Raw(ks[i], i - 1), IF i \in miss THEN "nan" ELSE "1", "-")]
              : ks \in [1..n -> Kinds],
                miss \in {{}} \cup {{i} : i \in 1..n} }
            : n \in 0..MaxRows }

\* datasets of ISO dates on any days, in any order, repeats included
TimeFrames ==
    UNION { { [i \in 1..n |-> Row(i - 1, Raw("iso", tm[i]), "1", "-")]
              : tm \in [1..n -> 0..MaxT] }
            : n \in 1..MaxRows }

\* a weekly series whose last row lacks its value
DemoFrame ==
    << Row(0, Raw("iso", 0), "1", "-"), Row(1, Raw("iso", 7), "1", "-"),
       Row(2, Raw("iso", 14), "1", "-"), Row(3, Raw("iso", 21), "nan", "-") >>

CausalVals == {"nan", "str", "1", "2"}
\* a missing value is drawn in the first column, text in the second
CausalFrames ==
    UNION { { [i \in 1..n |-> Row(i - 1, Raw("junk", 0), xs[i], ys[i])]
              : xs \in [1..n -> CausalVals \ {"str"}], ys \in [1..n -> CausalVals \ {"nan"}] }
            : n \in 0..MaxRows }

NoParseInfo == [method |-> "None", n_parsed |-> 0, total |-> 0, fmt |-> 0]
NoForecast == [kind |-> "unset", ds |-> << >>, by |-> "-"]
NoRes == [correlation |-> "unset", granger_pvalues |-> "unset", granger_error |-> "unset"]

\* upload runs on the event loop, the other endpoints on pool threads
Uploader == 0
Requests == 1..NumRequests
Callers == {Uploader} \cup Requests

None == [kind |-> "None", v |-> 0]
DataFrame(v) == [kind |-> "DataFrame", v |-> v]
\* the workbook: absent, or holding the bytes of version v (0: truncated)
NoFile == [exists |-> FALSE, v |-> 0]
Workbook(v) == [exists |-> TRUE, v |-> v]

\* _infer_schema(df): the schema of the frame it is given
_infer_schema(d) == [kind |-> "schema", v |-> d.v]

\* line 43-44, and every endpoint waiting for a request
CacheIdle ==
    /\ _df = None
    /\ _schema_info = None
    /\ cpc = [c \in Callers |-> "idle"]
    /\ loaded = [c \in Callers |-> None]
    /\ inferred = [c \in Callers |-> None]
    /\ returned = [c \in Callers |-> None]
    /\ uploads = 0

InitLocals ==
    /\ pc = "start"
    /\ ts = << >>
    /\ parse_info = NoParseInfo
    /\ freq = NoFreq
    /\ ts_resampled = << >>
    /\ adf_res = "unset"
    /\ decomposition_plot_url = "unset"
    /\ forecast = NoForecast
    /\ forecast_plot_url = "unset"
    /\ pair = << >>
    /\ res = NoRes
    /\ exc = ""
    /\ log = << >>
    /\ commits = << >>
    /\ primary_raised = "-"
    /\ fallback_raised = "-"

InitKinds ==
    /\ df \in KindFrames
    /\ req = TsRequest(NoFreq, 1)
    /\ lib = LibOk

InitTimes ==
    /\ df \in TimeFrames
    /\ \/ /\ req \in {TsRequest(f, MaxHorizon) : f \in {NoFreq, FreqD, Freq2D, FreqW}}
          /\ lib \in {LibOk, [LibOk EXCEPT !.primary = "fit"]}
       \/ /\ req \in {TsRequest(NoFreq, h) : h \in 0..MaxHorizon}
          /\ lib = LibOk

InitLib ==
    /\ df = DemoFrame
    /\ req \in [fn : {"ts"}, cols : BOOLEAN, freq : {NoFreq}, horizon : {MaxHorizon},
                horizon_none : BOOLEAN]
    /\ lib \in Libs

InitCausal ==
    /\ df \in CausalFrames
    /\ req \in [fn : {"causal"}, cols : BOOLEAN, freq : {NoFreq}, horizon : {0},
                horizon_none : {FALSE}]
    /\ lib \in {LibOk, [LibOk EXCEPT !.granger = "raise"]}

Init ==
    /\ (InitKinds \/ InitTimes \/ InitLib \/ InitCausal) /\ InitLocals
    /\ file = NoFile /\ CacheIdle

\* ------------------------------------------------- run_time_series_analysis
\* ts as a view of df: writing it writes the dataset
StoreTsShared(new) == ts' = new /\ df' = new

\* ts is a private copy of the two columns (.copy()): writing it leaves df alone
StoreTs(new) == ts' = new /\ df' = df

Raise(e) == pc' = "raised" /\ exc' = e

\* lines 169-174: the column check, the copy and the drop of rows without value
Enter ==
    /\ pc = "start" /\ req.fn = "ts"
    /\ log' = Append(log, "enter")
    /\ IF ~req.cols
         THEN Raise("ValueError: Columns not found in dataset") /\ StoreTs(ts)
         ELSE /\ StoreTs(SelectSeq(df, LAMBDA r : r.value # "nan"))
              /\ pc' = "stage1" /\ exc' = exc
    /\ UNCHANGED << cacheVars, req, lib, pair, res, tsVars >>

\* lines 176-193: 1) the vectorized parse with format inference
Stage1 ==
    /\ pc = "stage1"
    /\ log' = Append(log, "stage1")
    /\ LET parsed == [i \in 1..Len(ts) |-> ToDatetimeInfer(ts[i].date)]
           n_parsed == NotNaCount(parsed)
           total == Len(parsed)
       IN  IF lib.infer = "raise"
             THEN /\ parse_info' = [NoParseInfo EXCEPT !.method = "pandas_infer_failed"]
                  /\ StoreTs(ts) /\ commits' = commits /\ pc' = "stage2"
           ELSE IF ReachesThreshold(n_parsed, total)
             THEN /\ StoreTs(AssignDates(ts, parsed))
                  /\ parse_info' = [method |-> "pandas_infer", n_parsed |-> n_parsed,
                                    total |-> total, fmt |-> 0]
                  /\ commits' = Append(commits, 1)
                  /\ pc' = "dropnat"
             ELSE /\ StoreTs(ts)
                  /\ parse_info' = [method |-> "partial_infer", n_parsed |-> n_parsed,
                                    total |-> total, fmt |-> 0]
                  /\ commits' = commits /\ pc' = "stage2"
    /\ UNCHANGED << cacheVars, req, lib, pair, res, exc, freq, ts_resampled, adf_res,
                    decomposition_plot_url, forecast, forecast_plot_url,
                    primary_raised, fallback_raised >>

\* the parse of the whole column with common_formats[f]
ParseWithFormat(frame, f) == [i \in 1..Len(frame) |-> ToDatetimeFormat(frame[i].date, f)]

\* the for loop of lines 209-220: the first format, in list order, that parses
\* enough of the column; 0 when none does
FirstFormat(frame) ==
    LET good == {f \in 1..Len(common_formats) :
                    ReachesThreshold(NotNaCount(ParseWithFormat(frame, f)), Len(frame))}
    IN  IF good = {} THEN 0 ELSE CHOOSE f \in good : \A g \in good : f <= g

\* lines 195-220: 2) the list of common formats
Stage2 ==
    /\ pc = "stage2"
    /\ log' = Append(log, "stage2")
    /\ LET f == FirstFormat(ts)
       IN  IF f # 0
             THEN /\ StoreTs(AssignDates(ts, ParseWithFormat(ts, f)))
                  /\ parse_info' = [method |-> "pandas_format",
                                    n_parsed |-> NotNaCount(ParseWithFormat(ts, f)),
                                    total |-> Len(ts), fmt |-> f]
                  /\ commits' = Append(commits, 2)
                  /\ pc' = "stage4"
             ELSE /\ StoreTs(ts) /\ parse_info' = parse_info /\ commits' = commits
                  /\ pc' = "stage3"
    /\ UNCHANGED << cacheVars, req, lib, pair, res, exc, freq, ts_resampled, adf_res,
                    decomposition_plot_url, forecast, forecast_plot_url,
                    primary_raised, fallback_raised >>

\* lines 221-241: 3) integers as epoch seconds or milliseconds
Stage3 ==
    /\ pc = "stage3"
    /\ log' = Append(log, "stage3")
    /\ LET numeric == SelectSeq(DateCol(ts), IsNumeric)
           n_numeric == Len(numeric)
           unit == IF MedianLen(numeric) >= MsDigits THEN "ms" ELSE "s"
       IN  IF ReachesThreshold(n_numeric, Len(ts))
             THEN /\ StoreTs(AssignDates(ts,
                        [i \in 1..Len(ts) |-> ToDatetimeUnit(ts[i].date, unit)]))
                  /\ parse_info' = [method |-> IF unit = "ms" THEN "epoch_ms" ELSE "epoch_s",
                                    n_parsed |-> n_numeric, total |-> Len(ts), fmt |-> 0]
                  /\ commits' = Append(commits, 3)
             ELSE StoreTs(ts) /\ parse_info' = parse_info /\ commits' = commits
    /\ pc' = "stage4"
    /\ UNCHANGED << cacheVars, req, lib, pair, res, exc, freq, ts_resampled, adf_res,
                    decomposition_plot_url, forecast, forecast_plot_url,
                    primary_raised, fallback_raised >>

\* line 244: the condition under which the per-value parse runs
Stage4Runs ==
    \/ parse_info.method \in {"partial_infer", "pandas_infer_failed"}
    \/ \E i \in 1..Len(ts) : IsNa(ts[i].date)

\* lines 243-264: 4) the per-value dateutil parse
Stage4 ==
    /\ pc = "stage4"
    /\ IF Stage4Runs
         THEN LET parsed_list == [i \in 1..Len(ts) |-> DateutilParse(ts[i].date)]
              IN  /\ log' = Append(log, "stage4")
                  /\ IF NotNaCount(parsed_list) > 0
                       THEN /\ StoreTs(AssignDatesByLabel(ts, parsed_list))
                            /\ parse_info' = [method |-> "dateutil_per_value",
                                              n_parsed |-> NotNaCount(parsed_list),
                                              total |-> Len(parsed_list), fmt |-> 0]
                            /\ commits' = Append(commits, 4)
                       ELSE StoreTs(ts) /\ parse_info' = parse_info /\ commits' = commits
         ELSE /\ log' = log /\ StoreTs(ts)
              /\ parse_info' = parse_info /\ commits' = commits
    /\ pc' = "dropnat"
    /\ UNCHANGED << cacheVars, req, lib, pair, res, exc, freq, ts_resampled, adf_res,
                    decomposition_plot_url, forecast, forecast_plot_url,
                    primary_raised, fallback_raised >>

\* lines 266-269: the rows without a date are dropped; an empty frame raises
DropNaT ==
    /\ pc = "dropnat"
    /\ log' = Append(log, "dropnat")
    /\ LET kept == SelectSeq(ts, LAMBDA r : ~IsNa(r.date))
       IN  /\ StoreTs(kept)
           /\ IF kept = << >>
                THEN Raise("ValueError: After parsing, no valid dates available")
                ELSE pc' = "sort" /\ exc' = exc
    /\ UNCHANGED << cacheVars, req, lib, pair, res, tsVars >>

\* the date column still holds the raw values: no stage assigned it
HoldsRaw(frame) == \E i \in 1..Len(frame) : frame[i].date.tag = "raw"

\* raw values of both Python types, int and str, cannot be ordered
MixedTypes(frame) ==
    /\ \E i \in 1..Len(frame) : frame[i].date.k \in {"int10", "int13"}
    /\ \E i \in 1..Len(frame) : frame[i].date.k \notin {"int10", "int13"}

\* lines 274-279: the frequency given, else the one inferred, else daily
ResolveFreq(frame) ==
    LET index == [i \in 1..Len(frame) |-> frame[i].date.t]
    IN  IF req.freq # NoFreq THEN req.freq
        ELSE IF HoldsRaw(frame) \/ InferFreqRaises(index) THEN FreqD
        ELSE IF InferFreq(index) = NoFreq THEN FreqD
        ELSE InferFreq(index)

\* lines 271-279: sort by date, index by date, resolve the frequency
SortIndex ==
    /\ pc = "sort"
    /\ log' = Append(log, "sort")
    /\ IF HoldsRaw(ts) /\ MixedTypes(ts)
         THEN Raise("TypeError: '<' not supported") /\ StoreTs(ts) /\ freq' = freq
         ELSE LET sorted == IF HoldsRaw(ts) THEN ts ELSE SortValues(ts)
              IN  /\ StoreTs(sorted)
                  /\ freq' = ResolveFreq(sorted)
                  /\ pc' = "resample" /\ exc' = exc
    /\ UNCHANGED << cacheVars, req, lib, pair, res, parse_info, ts_resampled, adf_res,
                    decomposition_plot_url, forecast, forecast_plot_url, commits,
                    primary_raised, fallback_raised >>

\* line 281: resample, aggregate, interpolate; an index that is not of
\* timestamps raises
ResampleStep ==
    /\ pc = "resample"
    /\ log' = Append(log, "resample")
    /\ IF HoldsRaw(ts)
         THEN Raise("TypeError: Only valid with DatetimeIndex") /\ ts_resampled' = ts_resampled
         ELSE ts_resampled' = Resample(ts, freq) /\ pc' = "adf" /\ exc' = exc
    /\ StoreTs(ts)
    /\ UNCHANGED << cacheVars, req, lib, pair, res, parse_info, freq, adf_res,
                    decomposition_plot_url, forecast, forecast_plot_url, commits,
                    primary_raised, fallback_raised >>

\* lines 283-289: the ADF test, its failure recorded
Adf ==
    /\ pc = "adf"
    /\ log' = Append(log, "adf")
    /\ adf_res' = IF lib.adf = "ok" THEN "statistic" ELSE "error"
    /\ pc' = "decomp"
    /\ StoreTs(ts)
    /\ UNCHANGED << cacheVars, req, lib, pair, res, exc, parse_info, freq, ts_resampled,
                    decomposition_plot_url, forecast, forecast_plot_url, commits,
                    primary_raised, fallback_raised >>

\* lines 291-300: the decomposition plot, None on failure
Decompose ==
    /\ pc = "decomp"
    /\ log' = Append(log, "decomp")
    /\ decomposition_plot_url' = IF lib.decomp = "ok" THEN "url" ELSE "None"
    /\ pc' = "primary"
    /\ StoreTs(ts)
    /\ UNCHANGED << cacheVars, req, lib, pair, res, exc, parse_info, freq, ts_resampled,
                    adf_res, forecast, forecast_plot_url, commits,
                    primary_raised, fallback_raised >>

\* lines 311-313 and 329-331: the forecast records
Records(by) ==
    [kind |-> "records",
     ds |-> ForecastIndex(ts_resampled[Len(ts_resampled)].t, req.horizon, freq),
     by |-> by]

\* the first statement of the primary attempt that raises, "-" if none:
\* the import, the fit, int(forecast_periods), the prediction, the plot
PrimaryRaisesAt ==
    IF lib.primary \in {"import", "fit"} THEN lib.primary
    ELSE IF req.horizon_none THEN "int"
    ELSE IF lib.primary \in {"predict", "plot"} THEN lib.primary
    ELSE "-"

\* lines 302-322: the auto-selected model
ForecastPrimary ==
    /\ pc = "primary"
    /\ log' = Append(log, "primary")
    /\ primary_raised' = PrimaryRaisesAt
    /\ forecast' = IF PrimaryRaisesAt \in {"plot", "-"} THEN Records("primary")
                   ELSE [NoForecast EXCEPT !.kind = "None"]
    /\ forecast_plot_url' = IF PrimaryRaisesAt = "-" THEN "url" ELSE "None"
    /\ pc' = IF PrimaryRaisesAt = "-" THEN "return" ELSE "fallback"
    /\ StoreTs(ts)
    /\ UNCHANGED << cacheVars, req, lib, pair, res, exc, parse_info, freq, ts_resampled,
                    adf_res, decomposition_plot_url, commits, fallback_raised >>

\* the except branch leaving the forecast as the primary attempt left it
FailedForecastStale == forecast

\* lines 340-341: the error record that replaces the forecast
FailedForecast == [NoForecast EXCEPT !.kind = "error"]

\* the first statement of the fallback attempt that raises, "-" if none
FallbackRaisesAt ==
    IF lib.fallback = "fit" THEN "fit"
    ELSE IF req.horizon_none THEN "int"
    ELSE IF lib.fallback = "plot" THEN "plot"
    ELSE "-"

\* lines 323-342: the fixed-order (1,1,1) model, then the error record
ForecastFallback ==
    /\ pc = "fallback"
    /\ log' = Append(log, "fallback")
    /\ fallback_raised' = FallbackRaisesAt
    /\ forecast' = IF FallbackRaisesAt = "-" THEN Records("fallback")
                   ELSE FailedForecast
    /\ forecast_plot_url' = IF FallbackRaisesAt = "-" THEN "url" ELSE "None"
    /\ pc' = "return"
    /\ StoreTs(ts)
    /\ UNCHANGED << cacheVars, req, lib, pair, res, exc, parse_info, freq, ts_resampled,
                    adf_res, decomposition_plot_url, commits, primary_raised >>

\* lines 344-352: the bundle is returned
Return ==
    /\ pc = "return"
    /\ log' = Append(log, "return")
    /\ pc' = "done"
    /\ StoreTs(ts)
    /\ UNCHANGED << cacheVars, req, lib, pair, res, exc, tsVars >>

\* -------------------------------------------------------- run_causal_checks
\* pair is built by dropna() on a selection of df: a new frame
StorePair(new) == pair' = new /\ df' = df

\* pd.to_numeric(col, errors="coerce") of one value: is it a number
Coerces(v) == v \in {"1", "2"}

\* lines 361-364: rows with both values present and numeric
CleanPair(frame) ==
    SelectSeq(SelectSeq(frame, LAMBDA r : r.value # "nan" /\ r.other # "nan"),
              LAMBDA r : Coerces(r.value) /\ Coerces(r.other))

\* a column of the pair has no variance
ConstantColumn(p) ==
    \/ \A i, j \in 1..Len(p) : p[i].value = p[j].value
    \/ \A i, j \in 1..Len(p) : p[i].other = p[j].other

\* Series.corr: NaN with fewer than two rows or a column without variance
CorrIsNaN(p) == Len(p) < 2 \/ ConstantColumn(p)

\* the correlation returned without the NaN check
CorrelationUnchecked(p) == IF p # << >> THEN "float" ELSE "None"

\* lines 366-370
Correlation(p) ==
    IF p # << >>
      THEN (IF ~CorrIsNaN(p) THEN "float" ELSE "None")
      ELSE "None"

\* grangercausalitytests raises on too few rows or a constant column, and
\* whenever the library says so
GrangerRaises(p) == lib.granger = "raise" \/ Len(p) < 2 \/ ConstantColumn(p)

\* lines 372-376: the p-values, or the error in their place
GrangerResult(r, p) ==
    IF GrangerRaises(p) THEN [r EXCEPT !.granger_error = "str"]
    ELSE [r EXCEPT !.granger_pvalues = "map"]

\* lines 356-364
CausalEnter ==
    /\ pc = "start" /\ req.fn = "causal"
    /\ log' = Append(log, "enter")
    /\ IF ~req.cols
         THEN Raise("ValueError: Columns not found") /\ StorePair(pair)
         ELSE StorePair(CleanPair(df)) /\ pc' = "corr" /\ exc' = exc
    /\ UNCHANGED << cacheVars, req, lib, ts, res, tsVars >>

CausalCorr ==
    /\ pc = "corr"
    /\ log' = Append(log, "corr")
    /\ res' = [res EXCEPT !.correlation = Correlation(pair)]
    /\ pc' = "granger"
    /\ StorePair(pair)
    /\ UNCHANGED << cacheVars, req, lib, ts, exc, tsVars >>

CausalGranger ==
    /\ pc = "granger"
    /\ log' = Append(log, "granger")
    /\ res' = GrangerResult(res, pair)
    /\ pc' = "creturn"
    /\ StorePair(pair)
    /\ UNCHANGED << cacheVars, req, lib, ts, exc, tsVars >>

\* line 378
CausalReturn ==
    /\ pc = "creturn"
    /\ log' = Append(log, "return")
    /\ pc' = "done"
    /\ StorePair(pair)
    /\ UNCHANGED << cacheVars, req, lib, ts, res, exc, tsVars >>

\* ------------------------------------------------------ the dataset cache
At(c, l) == cpc' = [cpc EXCEPT ![c] = l]

\* line 436 / 442 / 454 / 460 / 466: a pool thread enters its endpoint
Begin(r) ==
    /\ cpc[r] = "idle"
    /\ At(r, "check")
    /\ UNCHANGED << analysisVars, tsVars, file, _df, _schema_info, loaded, inferred,
                    returned, uploads >>

\* line 50: if _df is None
LoadCheck(c) ==
    /\ cpc[c] = "check"
    /\ At(c, IF _df = None THEN "exists" ELSE "return")
    /\ UNCHANGED << analysisVars, tsVars, file, _df, _schema_info, loaded, inferred,
                    returned, uploads >>

\* lines 51-52
LoadExists(c) ==
    /\ cpc[c] = "exists"
    /\ At(c, IF file.exists THEN "read" ELSE "raised")
    /\ UNCHANGED << analysisVars, tsVars, file, _df, _schema_info, loaded, inferred,
                    returned, uploads >>

\* line 53, right-hand side: pd.read_excel(DATA_PATH); a truncated workbook raises
LoadRead(c) ==
    /\ cpc[c] = "read"
    /\ IF file.v = 0
         THEN At(c, "raised") /\ loaded' = loaded
         ELSE At(c, "store_df") /\ loaded' = [loaded EXCEPT ![c] = DataFrame(file.v)]
    /\ UNCHANGED << analysisVars, tsVars, file, _df, _schema_info, inferred, returned,
                    uploads >>

\* line 53, the store to the global
LoadStoreDf(c) ==
    /\ cpc[c] = "store_df"
    /\ _df' = loaded[c]
    /\ At(c, "infer")
    /\ UNCHANGED << analysisVars, tsVars, file, _schema_info, loaded, inferred, returned,
                    uploads >>

\* line 54, right-hand side: _infer_schema(_df) reads the global
LoadInfer(c) ==
    /\ cpc[c] = "infer"
    /\ IF _df = None
         THEN At(c, "raised") /\ inferred' = inferred
         ELSE /\ At(c, "store_schema")
              /\ inferred' = [inferred EXCEPT ![c] = _infer_schema(_df)]
    /\ UNCHANGED << analysisVars, tsVars, file, _df, _schema_info, loaded, returned,
                    uploads >>

\* line 54, the store to the global
LoadStoreSchema(c) ==
    /\ cpc[c] = "store_schema"
    /\ _schema_info' = inferred[c]
    /\ At(c, "return")
    /\ UNCHANGED << analysisVars, tsVars, file, _df, loaded, inferred, returned,
                    uploads >>

\* line 55: return _df
LoadReturn(c) ==
    /\ cpc[c] = "return"
    /\ returned' = [returned EXCEPT ![c] = _df]
    /\ At(c, IF c = Uploader THEN "respond" ELSE "done")
    /\ UNCHANGED << analysisVars, tsVars, file, _df, _schema_info, loaded, inferred,
                    uploads >>

\* lines 426-427: the body is read and DATA_PATH opened "wb", which truncates it
UploadOpen ==
    /\ cpc[Uploader] = "idle" /\ uploads < MaxUploads
    /\ file' = Workbook(0)
    /\ At(Uploader, "write")
    /\ UNCHANGED << analysisVars, tsVars, _df, _schema_info, loaded, inferred, returned,
                    uploads >>

\* line 428: the workbook of upload number uploads + 1 (the one found at start
\* being number 1)
UploadWrite ==
    /\ cpc[Uploader] = "write"
    /\ file' = Workbook(uploads + 2)
    /\ At(Uploader, "reset_df")
    /\ UNCHANGED << analysisVars, tsVars, _df, _schema_info, loaded, inferred, returned,
                    uploads >>

\* line 60
ResetDf ==
    /\ cpc[Uploader] = "reset_df"
    /\ _df' = None
    /\ At(Uploader, "reset_schema")
    /\ UNCHANGED << analysisVars, tsVars, file, _schema_info, loaded, inferred, returned,
                    uploads >>

\* line 61, then line 430 enters _load_df
ResetSchema ==
    /\ cpc[Uploader] = "reset_schema"
    /\ _schema_info' = None
    /\ At(Uploader, "check")
    /\ UNCHANGED << analysisVars, tsVars, file, _df, loaded, inferred, returned,
                    uploads >>

\* line 431: upload has completed
UploadReturn ==
    /\ cpc[Uploader] = "respond"
    /\ uploads' = uploads + 1
    /\ At(Uploader, "idle")
    /\ UNCHANGED << analysisVars, tsVars, file, _df, _schema_info, loaded, inferred,
                    returned >>

\* --------------------------------------------------------------- behaviour
Next ==
    \/ Enter \/ Stage1 \/ Stage2 \/ Stage3 \/ Stage4 \/ DropNaT \/ SortIndex
    \/ ResampleStep \/ Adf \/ Decompose \/ ForecastPrimary \/ ForecastFallback
    \/ Return
    \/ CausalEnter \/ CausalCorr \/ CausalGranger \/ CausalReturn

Spec == Init /\ [][Next]_vars

\* the endpoints sharing the cache: no analysis is running, a workbook may or
\* may not be at DATA_PATH when the server starts
InitCache ==
    /\ df = << >> /\ req = TsRequest(NoFreq, 0) /\ lib = LibOk /\ InitLocals
    /\ file \in {NoFile, Workbook(1)}
    /\ CacheIdle

NextCache ==
    \/ \E r \in Requests : Begin(r)
    \/ \E c \in Callers : LoadCheck(c)
    \/ \E c \in Callers : LoadExists(c)
    \/ \E c \in Callers : LoadRead(c)
    \/ \E c \in Callers : LoadStoreDf(c)
    \/ \E c \in Callers : LoadInfer(c)
    \/ \E c \in Callers : LoadStoreSchema(c)
    \/ \E c \in Callers : LoadReturn(c)
    \/ UploadOpen \/ UploadWrite \/ ResetDf \/ ResetSchema \/ UploadReturn

SpecCache == InitCache /\ [][NextCache]_vars

\* ------------------------------------------------------------------ claims
Ran(step) == \E i \in 1..Len(log) : log[i] = step

\* the method each committing stage reports
MethodsOf(stage) ==
    IF stage = 1 THEN {"pandas_infer"}
    ELSE IF stage = 2 THEN {"pandas_format"}
    ELSE IF stage = 3 THEN {"epoch_s", "epoch_ms"}
    ELSE {"dateutil_per_value"}

\* C1: a stage of 1 to 3 commits only with count parsed / total >= 0.8: while
\* the reported method is that of such a stage, the counts it reports reach
\* eight tenths.
C1_CommitsOnlyAtFourFifths ==
    parse_info.method \in {"pandas_infer", "pandas_format", "epoch_s", "epoch_ms"}
        => 10 * parse_info.n_parsed >= ThresholdTenths * parse_info.total

\* C2: once a stage of 1 to 3 has committed no later stage runs, the committed
\* timestamps are not parsed again and parse_info reports the stage that
\* committed.
C2_FirstCommitIsFinal ==
    (commits # << >> /\ commits[1] \in {1, 2, 3})
        => /\ commits = << commits[1] >>
           /\ ~Ran("stage4")
           /\ \A k \in 1..3 : k > commits[1] => ~Ran(IF k = 2 THEN "stage2" ELSE "stage3")
           /\ parse_info.method \in MethodsOf(commits[1])

\* C3: when no stage commits, the function fails on the dates before the
\* resampling step (or any later step) is run.
C3_NoCommitNoResample ==
    commits = << >> => ~Ran("resample")

\* one step runs before another
RanBefore(a, b) == \E i, j \in 1..Len(log) : i < j /\ log[i] = a /\ log[j] = b

Finished == pc \in {"return", "done"}

\* C4, as stated: the fallback model is attempted only after the primary model
\* raised during fitting or prediction.
C4_FallbackOnlyAfterFitOrPredict ==
    Ran("fallback") => primary_raised \in {"fit", "predict"}

\* C4, amended: the fallback is attempted only after the primary attempt
\* raised, at any of its statements; the failed outcome is reached exactly
\* when both attempts raised, and then the bundle carries the error and
\* neither forecast records nor a forecast plot.
C4_ForecastChain ==
    /\ Ran("fallback") => (RanBefore("primary", "fallback") /\ primary_raised # "-")
    /\ forecast.kind = "error"
          => /\ Ran("fallback") /\ primary_raised # "-" /\ fallback_raised # "-"
             /\ forecast.ds = << >>
             /\ forecast_plot_url = "None"
    /\ (Finished /\ primary_raised # "-" /\ fallback_raised # "-")
          => forecast.kind = "error"

C4_Witness ==
    pc = "done" /\ forecast.kind = "error" /\ primary_raised = "plot"

\* C5: a forecast that succeeded has exactly horizon entries, one frequency
\* step apart, the first one step after the last resampled timestamp.
C5_ForecastTimestamps ==
    (Finished /\ forecast.kind = "records")
        => /\ Len(forecast.ds) = req.horizon
           /\ freq.step > 0
           /\ \A i \in 1..Len(forecast.ds) :
                 forecast.ds[i] = ts_resampled[Len(ts_resampled)].t + i * freq.step

C5_Witness ==
    /\ pc = "done" /\ forecast.kind = "records" /\ forecast.by = "fallback"
    /\ Len(forecast.ds) >= 2 /\ freq.anchored

\* C6: a request whose columns exist and whose dates yield at least one parsed
\* timestamp returns a bundle; the three sub-steps all run and each failure is
\* marked.
C6_BundleReturned ==
    (req.fn = "ts" /\ req.cols /\ commits # << >> /\ parse_info.n_parsed >= 1)
        => /\ pc # "raised"
           /\ pc = "done" =>
                /\ Ran("adf") /\ Ran("decomp") /\ Ran("primary")
                /\ lib.adf = "raise" => adf_res = "error"
                /\ lib.decomp = "raise" => decomposition_plot_url = "None"
                /\ (primary_raised # "-" /\ fallback_raised # "-")
                      => forecast.kind = "error"

\* the rows that enter parsing all hold integers
IntegerColumn ==
    LET rows == SelectSeq(df, LAMBDA r : r.value # "nan")
    IN  /\ rows # << >>
        /\ \A i \in 1..Len(rows) : rows[i].date.k \in {"int10", "int13"}

\* C7: a column of integers commits at stage 3, as milliseconds when the
\* median digit length is at least 13 and as seconds otherwise.
C7_IntegersCommitAtStage3 ==
    (req.fn = "ts" /\ req.cols /\ IntegerColumn /\ Ran("dropnat"))
        => /\ commits = << 3 >>
           /\ parse_info.method =
                IF MedianLen(DateCol(SelectSeq(df, LAMBDA r : r.value # "nan"))) >= MsDigits
                  THEN "epoch_ms" ELSE "epoch_s"

\* C8: the resampled series is on a grid of the resolved frequency: ascending
\* without repeats, evenly spaced, as long as its span requires, every parsed
\* row in exactly one of its buckets and the end buckets not empty.
C8_ResampledGrid ==
    (Ran("resample") /\ pc # "raised")
        => LET r == ts_resampled
               n == Len(ts_resampled)
           IN  /\ n >= 1 /\ freq.step > 0
               /\ \A i \in 1..(n - 1) : r[i + 1].t - r[i].t = freq.step
               /\ n = (r[n].t - r[1].t) \div freq.step + 1
               /\ \A j \in 1..Len(ts) :
                     Cardinality({i \in 1..n : ts[j].idx \in r[i].rows}) = 1
               /\ r[1].rows # {} /\ r[n].rows # {}
               /\ \A i \in 1..n : \A j \in 1..Len(ts) :
                     ts[j].idx \in r[i].rows =>
                        IF freq.anchored
                          THEN r[i].t - freq.step < ts[j].date.t /\ ts[j].date.t <= r[i].t
                          ELSE r[i].t <= ts[j].date.t /\ ts[j].date.t < r[i].t + freq.step

\* unsorted input with a repeated timestamp and a gap, resampled
C8_Witness ==
    /\ pc = "adf" /\ Len(df) = 3
    /\ df[1].date.t > df[3].date.t /\ df[1].date.t = df[2].date.t
    /\ \E i \in 1..Len(ts_resampled) : ts_resampled[i].rows = {}

\* the rows of the dataset with a number in both columns
ValidRows == {i \in 1..Len(df) : df[i].value \in {"1", "2"} /\ df[i].other \in {"1", "2"}}

C10_DatasetUnchanged == [][df' = df]_vars

\* a failing run that had rewritten the date column of its working frame
C10_Witness ==
    pc = "raised" /\ commits # << >> /\ DateCol(ts) # DateCol(df)

\* the timestamps some stage of the cascade gives for a raw value
ParsesOf(c) ==
    ({ToDatetimeInfer(c), DateutilParse(c), ToDatetimeUnit(c, "s"), ToDatetimeUnit(c, "ms")}
        \cup {ToDatetimeFormat(c, f) : f \in 1..Len(common_formats)}) \ {NaT}

\* C11: in every row of the working frame that holds a timestamp, the
\* timestamp is a parse of the raw date value of that same row of the dataset,
\* and the row carries that row's numeric value.
C11_RowPairing ==
    \A i \in 1..Len(ts) :
        ts[i].date.tag = "ts"
            => /\ ts[i].date \in ParsesOf(df[ts[i].idx + 1].date)
               /\ ts[i].value = df[ts[i].idx + 1].value

\* no pool thread is inside _load_df
Quiescent == \A r \in Requests : cpc[r] \in {"idle", "done", "raised"}

\* C12: once an upload has completed, with no upload running and no request
\* inside _load_df, the cache holds the dataset of the workbook uploaded last
\* and the schema of that dataset.
C12_CacheHoldsLastUpload ==
    (uploads >= 1 /\ cpc[Uploader] = "idle" /\ Quiescent)
        => /\ _df = DataFrame(file.v)
           /\ _schema_info = _infer_schema(_df)

====
